---------------------------- MODULE Spec2Model ----------------------------
(***************************************************************************)
(* A model of foxi, a prover for equations over a meadow.                  *)
(*                                                                         *)
(* The symbolic substrate (sympy) is modelled by the ring Q[x] of          *)
(* polynomials in one symbol x with rational coefficients, in canonical    *)
(* form: a polynomial is the sequence of its coefficients, lowest degree   *)
(* first, without a trailing zero coefficient; a rational is a pair        *)
(* <<numerator, denominator>> in lowest terms with a positive denominator. *)
(* Equality of terms is equality of canonical forms.                       *)
(***************************************************************************)
EXTENDS Integers, Sequences, FiniteSets, TLC

-----------------------------------------------------------------------------
(* Rational numbers *)

Abs(n) == IF n < 0 THEN -n ELSE n

RECURSIVE GCD(_, _)
GCD(m, n) == IF n = 0 THEN m ELSE GCD(n, m % n)

Rat(n, d) ==
    IF d < 0 THEN <<(-n) \div GCD(Abs(n), Abs(d)), (-d) \div GCD(Abs(n), Abs(d))>>
    ELSE <<n \div GCD(Abs(n), Abs(d)), d \div GCD(Abs(n), Abs(d))>>

R0 == <<0, 1>>
R1 == <<1, 1>>
RInt(n) == <<n, 1>>
RAdd(p, q) == Rat(p[1] * q[2] + q[1] * p[2], p[2] * q[2])
RNeg(p) == <<-p[1], p[2]>>
RMul(p, q) == Rat(p[1] * q[1], p[2] * q[2])
RInv(p) == Rat(p[2], p[1])

-----------------------------------------------------------------------------
(* Terms of the substrate: canonical polynomials over the rationals *)

RECURSIVE Trim(_)
Trim(s) ==
    IF s = <<>> THEN <<>>
    ELSE IF s[Len(s)] = R0 THEN Trim(SubSeq(s, 1, Len(s) - 1))
    ELSE s

Coef(p, i) == IF i >= 1 /\ i <= Len(p) THEN p[i] ELSE R0
Deg(p) == Len(p) - 1
MaxOf(m, n) == IF m > n THEN m ELSE n

TZero == <<>>
TOne == <<R1>>
TX == <<R0, R1>>

TAdd(p, q) == Trim([i \in 1..MaxOf(Len(p), Len(q)) |-> RAdd(Coef(p, i), Coef(q, i))])
TScale(r, p) == Trim([i \in 1..Len(p) |-> RMul(r, p[i])])
TNeg(p) == [i \in 1..Len(p) |-> RNeg(p[i])]

RECURSIVE ConvSum(_, _, _, _)
ConvSum(p, q, k, i) ==
    IF i > Len(p) \/ i > k THEN R0
    ELSE RAdd(RMul(p[i], Coef(q, k - i + 1)), ConvSum(p, q, k, i + 1))

TMul(p, q) ==
    IF p = <<>> \/ q = <<>> THEN <<>>
    ELSE [k \in 1..(Len(p) + Len(q) - 1) |-> ConvSum(p, q, k, 1)]

\* x^k
TShift(p, k) == IF p = <<>> THEN <<>> ELSE [i \in 1..(Len(p) + k) |-> IF i <= k THEN R0 ELSE p[i - k]]

\* Division of a term by a nonzero number.
TDivConst(p, c) == TScale(RInv(c[1]), p)

\* Exact division: the quotient of p by q when q divides p, otherwise <<"none">>.
NoQuot == <<"none">>
RECURSIVE TDivStep(_, _, _)
RECURSIVE TDivTerm(_, _, _, _)
TDivStep(p, q, acc) ==
    IF p = <<>> THEN acc
    ELSE IF Len(p) < Len(q) THEN NoQuot
    ELSE TDivTerm(p, q, acc, TShift(<<RMul(p[Len(p)], RInv(q[Len(q)]))>>, Len(p) - Len(q)))
TDivTerm(p, q, acc, m) == TDivStep(TAdd(p, TNeg(TMul(m, q))), q, TAdd(acc, m))
TDivExact(p, q) == TDivStep(p, q, <<>>)
Divides(q, p) == TDivExact(p, q) # NoQuot

RECURSIVE IPow(_, _)
IPow(b, e) == IF e = 0 THEN 1 ELSE b * IPow(b, e - 1)

\* The value of p at the integer a.
RECURSIVE TAtFrom(_, _, _)
TAtFrom(p, a, i) ==
    IF i > Len(p) THEN R0
    ELSE RAdd(RMul(p[i], RInt(IPow(a, i - 1))), TAtFrom(p, a, i + 1))
TAt(p, a) == TAtFrom(p, a, 1)

-----------------------------------------------------------------------------
(* Factorisation of terms (sympy's factor).  A non-constant term is the    *)
(* product of a number and of powers of irreducible primitive polynomials  *)
(* with integer coefficients and a positive leading coefficient.  They are *)
(* found by Kronecker's method: a factor of degree <= d is determined by    *)
(* its values at d + 1 integers, each of which divides the value of the    *)
(* term there.                                                             *)

Lcm(m, n) == (m * n) \div GCD(m, n)

RECURSIVE LcmDen(_, _)
LcmDen(p, i) ==
    IF i > Len(p) THEN 1
    ELSE Lcm(p[i][2], LcmDen(p, i + 1))

RECURSIVE GcdNum(_, _)
GcdNum(p, i) == IF i > Len(p) THEN 0 ELSE GCD(Abs(p[i][1]), GcdNum(p, i + 1))

\* The primitive part of a nonzero term.
IntCoefs(p, l) == [i \in 1..Len(p) |-> RInt(p[i][1] * (l \div p[i][2]))]
PrimitiveInts(ints) ==
    [i \in 1..Len(ints) |->
        RInt(((IF ints[Len(ints)][1] < 0 THEN -1 ELSE 1) * ints[i][1]) \div GcdNum(ints, 1))]
Primitive(p) == PrimitiveInts(IntCoefs(p, LcmDen(p, 1)))

Pt(k) == IF k = 1 THEN 0 ELSE IF k % 2 = 0 THEN k \div 2 ELSE -(k \div 2)

Divisors(n) == {k \in (-Abs(n))..Abs(n) : k # 0 /\ n % Abs(k) = 0}

\* The Lagrange basis polynomial of the k-th of the first m points.
RECURSIVE Basis(_, _, _)
Basis(k, m, j) ==
    IF j > m THEN TOne
    ELSE IF j = k THEN Basis(k, m, j + 1)
    ELSE TMul(TScale(Rat(1, Pt(k) - Pt(j)), <<RInt(-Pt(j)), R1>>), Basis(k, m, j + 1))

\* The polynomials of degree < m whose value at the k-th point divides the
\* value of f there, for every k <= m.
RECURSIVE Candidates(_, _, _)
Candidates(f, m, k) ==
    IF k > m THEN {TZero}
    ELSE {TAdd(TScale(RInt(v), b), r) : v \in Divisors(TAt(f, Pt(k))[1]),
                                         b \in {Basis(k, m, 1)},
                                         r \in Candidates(f, m, k + 1)}

\* The proper factors of degree <= d of the primitive term f, made primitive.
FactorsUpTo(f, d) ==
    IF \E k \in 1..(d + 1) : TAt(f, Pt(k)) = R0
    THEN {<<RInt(-Pt(k)), R1>> : k \in {j \in 1..(d + 1) : TAt(f, Pt(j)) = R0}}
    ELSE {Primitive(q) : q \in {c \in Candidates(f, d + 1, 1) : Len(c) > 1 /\ Divides(c, f)}}

\* A total order on terms, standing for the order of sympy's sort key.
RECURSIVE CoefLess(_, _, _)
CoefLess(p, q, i) ==
    IF i > Len(p) THEN FALSE
    ELSE IF p[i] = q[i] THEN CoefLess(p, q, i + 1)
    ELSE p[i][1] * q[i][2] < q[i][1] * p[i][2]
TLess(p, q) == Len(p) < Len(q) \/ (Len(p) = Len(q) /\ CoefLess(p, q, 1))
MinTerm(S) == CHOOSE p \in S : \A q \in S : q = p \/ TLess(p, q)

RECURSIVE FindFactor(_, _)
RECURSIVE FindFactorIn(_, _, _)
FindFactor(f, d) ==
    IF 2 * d > Deg(f) THEN f ELSE FindFactorIn(f, d, FactorsUpTo(f, d) \ {f})
FindFactorIn(f, d, S) == IF S # {} THEN MinTerm(S) ELSE FindFactor(f, d + 1)

\* The set of distinct irreducible factors of a nonzero term.
RECURSIVE IrrFactors(_)
RECURSIVE IrrFactorsWith(_, _)
IrrFactors(f) ==
    IF Len(f) <= 1 THEN {} ELSE IrrFactorsWith(f, FindFactor(Primitive(f), 1))
IrrFactorsWith(f, q) == {q} \cup IrrFactors(TDivExact(f, q))

RECURSIVE SortTerms(_)
RECURSIVE SortFrom(_, _)
SortTerms(S) == IF S = {} THEN <<>> ELSE SortFrom(S, MinTerm(S))
SortFrom(S, m) == <<m>> \o SortTerms(S \ {m})

-----------------------------------------------------------------------------
(* The expression model (ast.py).  An expression is a record whose field k *)
(* names its class.  An operation that raises yields a Raised record       *)
(* naming the exception.                                                   *)

Polynomial(t) == [k |-> "Polynomial", terms |-> t]
SMF0(l, r) == [k |-> "SMF0", lhs |-> l, rhs |-> r]
SMFN(c, p, q) == [k |-> "SMFN", cond |-> c, P |-> p, Q |-> q]
Equation(l, r) == [k |-> "Equation", lhs |-> l, rhs |-> r]
Raised(e) == [k |-> "Raised", exc |-> e]

AlgebraicKinds == {"Polynomial", "SMF0", "SMFN"}
IsAlgebraic(e) == e.k \in AlgebraicKinds
IsRaised(e) == e.k = "Raised"

Zero == Polynomial(TZero)
One == Polynomial(TOne)

\* Algebraic.is_zero, is_one, is_constant and their overrides in Polynomial.
is_zero(e) == e.k = "Polynomial" /\ e.terms = TZero
is_one(e) == e.k = "Polynomial" /\ e.terms = TOne
is_constant(e) == e.k = "Polynomial" /\ Len(e.terms) <= 1

\* __eq__ of Polynomial, SMF0 and SMFN: same class and equal fields.
ExprEq(a, b) == a.k = b.k /\ a = b

\* Polynomial.factors: the term itself when it is a number, symbol or
\* irreducible sum, otherwise the bases of the factored product.
factors(p) ==
    IF Len(p.terms) <= 1 THEN <<p.terms>>
    ELSE SortTerms(IrrFactors(p.terms))

RECURSIVE TProd(_, _)
TProd(fs, i) == IF i > Len(fs) THEN TOne ELSE TMul(fs[i], TProd(fs, i + 1))

\* free_variables of an expression.
RECURSIVE free_variables(_)
free_variables(e) ==
    CASE e.k = "Polynomial" -> IF Len(e.terms) > 1 THEN {TX} ELSE {}
      [] e.k = "SMF0" -> free_variables(e.lhs) \cup free_variables(e.rhs)
      [] e.k = "SMFN" -> free_variables(e.cond) \cup free_variables(e.P) \cup free_variables(e.Q)
      [] e.k = "Equation" -> free_variables(e.lhs) \cup free_variables(e.rhs)

\* The methods below apply Python's operators and SMFN.make to their
\* operands through Algebraic_op, which dispatches to the __neg__, __add__,
\* __sub__, __mul__ and __truediv__ of Algebraic defined after them.
RECURSIVE Algebraic_op(_, _, _)

\* Variants of SMFN.make: one that builds the node as given, one that
\* compares the branches without first rewriting Q.
SMFN_make_raw(cond0, P0, Q0) == SMFN(cond0, P0, Q0)

\* SMFN.make, the condition: the product of its distinct factors.
make_cond(fs) == IF Len(fs) # 1 THEN Polynomial(TProd(fs, 1)) ELSE Polynomial(fs[1])

\* SMFN.make, the branches: a branch on the same condition is replaced by
\* its own branch; Q is replaced by zero when it is the condition or a Ratio
\* of it.
make_P(cond, P0) == IF P0.k = "SMFN" /\ ExprEq(P0.cond, cond) THEN P0.P ELSE P0
make_Q(cond, Q0) ==
    IF Q0.k = "SMFN" /\ ExprEq(Q0.cond, cond) THEN Q0.Q
    ELSE IF (Q0.k = "SMF0" /\ (ExprEq(cond, Q0.lhs) \/ ExprEq(cond, Q0.rhs)))
            \/ (Q0.k = "Polynomial" /\ ExprEq(Q0, cond))
         THEN Zero
    ELSE Q0
make_Q_kept(cond, Q0) == IF Q0.k = "SMFN" /\ ExprEq(Q0.cond, cond) THEN Q0.Q ELSE Q0

\* SMFN.make, the result.
make_result(cond, P, Q) ==
    IF ExprEq(P, Q) THEN P
    ELSE IF is_zero(cond) THEN Q
    ELSE IF is_constant(cond) THEN P
    ELSE SMFN(cond, P, Q)

make_branches(cond, P0, Q0) == make_result(cond, make_P(cond, P0), make_Q(cond, Q0))
make_branches_norewrite(cond, P0, Q0) ==
    make_result(cond, make_P(cond, P0), make_Q_kept(cond, Q0))

\* A make that keeps a branch on the same condition as it is given.
SMFN_make_nested(cond0, P0, Q0) == make_result(make_cond(factors(cond0)), P0, Q0)

SMFN_make_norewrite(cond0, P0, Q0) ==
    make_branches_norewrite(make_cond(factors(cond0)), P0, Q0)

\* SMFN.make: the normalising constructor of conditional branches.
SMFN_make(cond0, P0, Q0) == make_branches(make_cond(factors(cond0)), P0, Q0)

\* The operators and SMFN.make as the methods call them.
op_neg(x) == Algebraic_op("neg", x, x)
op_add(x, y) == Algebraic_op("add", x, y)
op_mul(x, y) == Algebraic_op("mul", x, y)
op_truediv(x, y) == Algebraic_op("truediv", x, y)
op_make(cond, P, Q) == Algebraic_op("make", cond, <<P, Q>>)

Polynomial_neg(self) == Polynomial(TNeg(self.terms))

Polynomial_add(self, other) ==
    CASE other.k = "Polynomial" -> Polynomial(TAdd(self.terms, other.terms))
      [] other.k = "SMF0" ->
            op_make(other.rhs,
                    op_truediv(op_add(op_mul(self, other.rhs), other.lhs), other.rhs),
                    self)
      [] other.k = "SMFN" ->
            op_make(other.cond, op_add(self, other.P), op_add(self, other.Q))
      [] OTHER -> Raised("AlgebraError")

Polynomial_mul(self, other) ==
    CASE other.k = "Polynomial" -> Polynomial(TMul(self.terms, other.terms))
      [] other.k = "SMF0" -> SMF0(Polynomial(TMul(self.terms, other.lhs.terms)), other.rhs)
      [] other.k = "SMFN" ->
            op_make(other.cond, op_mul(self, other.P), op_mul(self, other.Q))
      [] OTHER -> Raised("AlgebraError")

Polynomial_div(self, other) ==
    CASE other.k = "Polynomial" ->
            IF is_constant(other) THEN Polynomial(TDivConst(self.terms, other.terms))
            ELSE SMF0(self, other)
      [] other.k = "SMF0" -> SMF0(Polynomial(TMul(self.terms, other.rhs.terms)), other.lhs)
      [] other.k = "SMFN" ->
            op_make(other.cond, op_truediv(self, other.P), op_truediv(self, other.Q))
      [] OTHER -> Raised("AlgebraError")

SMF0_neg(self) == op_truediv(op_neg(self.lhs), self.rhs)

SMF0_add(self, other) ==
    CASE other.k = "Polynomial" -> op_add(other, self)
      [] other.k = "SMF0" ->
            IF ExprEq(self.rhs, other.rhs)
            THEN op_truediv(op_add(self.lhs, other.lhs), self.rhs)
            ELSE op_make(self.rhs,
                    op_make(other.rhs,
                        op_truediv(op_add(op_mul(self.lhs, other.rhs),
                                          op_mul(self.rhs, other.lhs)),
                                   op_mul(self.rhs, other.rhs)),
                        self),
                    other)
      [] other.k = "SMFN" ->
            IF ExprEq(self.rhs, other.cond)
            THEN op_make(self.rhs, op_add(self, other.P), other.Q)
            ELSE op_make(other.cond,
                    op_make(self.rhs, op_add(self, other.P), other.P),
                    op_make(self.rhs, op_add(self, other.Q), other.Q))
      [] OTHER -> Raised("AlgebraError")

SMF0_mul(self, other) ==
    CASE other.k = "Polynomial" -> op_mul(other, self)
      [] other.k = "SMF0" ->
            op_truediv(op_mul(self.lhs, other.lhs), op_mul(self.rhs, other.rhs))
      [] other.k = "SMFN" ->
            IF ExprEq(self.rhs, other.cond)
            THEN op_make(other.cond, other.P, Zero)
            ELSE op_make(other.cond, op_mul(self, other.P), op_mul(self, other.Q))
      [] OTHER -> Raised("AlgebraError")

SMF0_div(self, other) ==
    CASE other.k = "Polynomial" -> op_truediv(self.lhs, op_mul(self.rhs, other))
      [] other.k = "SMF0" ->
            op_truediv(op_mul(self.lhs, other.rhs), op_mul(self.rhs, other.lhs))
      [] other.k = "SMFN" ->
            IF ExprEq(self.rhs, other.cond)
            THEN op_make(other.cond, op_truediv(One, op_mul(self.rhs, other.P)), Zero)
            ELSE op_make(other.cond, op_truediv(self, other.P), op_truediv(self, other.Q))
      [] OTHER -> Raised("AlgebraError")

SMFN_neg(self) == op_make(self.cond, op_neg(self.P), op_neg(self.Q))

SMFN_add(self, other) ==
    CASE other.k \in {"Polynomial", "SMF0"} -> op_add(other, self)
      [] other.k = "SMFN" ->
            IF ExprEq(self.cond, other.cond)
            THEN op_make(self.cond, op_add(self.P, other.P), op_add(self.Q, other.Q))
            ELSE op_make(self.cond, op_add(self.P, other), op_add(self.Q, other))
      [] OTHER -> Raised("AlgebraError")

SMFN_mul(self, other) ==
    CASE other.k \in {"Polynomial", "SMF0"} -> op_mul(other, self)
      [] other.k = "SMFN" ->
            IF ExprEq(self.cond, other.cond)
            THEN op_make(self.cond, op_mul(self.P, other.P), op_mul(self.Q, other.Q))
            ELSE op_make(self.cond, op_mul(self.P, other), op_mul(self.Q, other))
      [] OTHER -> Raised("AlgebraError")

SMFN_div(self, other) ==
    CASE other.k \in {"Polynomial", "SMF0"} ->
            op_make(self.cond, op_truediv(self.P, other), op_truediv(self.Q, other))
      [] other.k = "SMFN" ->
            IF ExprEq(self.cond, other.cond)
            THEN op_make(self.cond, op_truediv(self.P, other.P), op_truediv(self.Q, other.Q))
            ELSE op_make(self.cond, op_truediv(self.P, other), op_truediv(self.Q, other))
      [] OTHER -> Raised("AlgebraError")

\* Dispatch on the class of self.
neg(self) ==
    CASE self.k = "Polynomial" -> Polynomial_neg(self)
      [] self.k = "SMF0" -> SMF0_neg(self)
      [] self.k = "SMFN" -> SMFN_neg(self)

add(self, other) ==
    CASE self.k = "Polynomial" -> Polynomial_add(self, other)
      [] self.k = "SMF0" -> SMF0_add(self, other)
      [] self.k = "SMFN" -> SMFN_add(self, other)

mul(self, other) ==
    CASE self.k = "Polynomial" -> Polynomial_mul(self, other)
      [] self.k = "SMF0" -> SMF0_mul(self, other)
      [] self.k = "SMFN" -> SMFN_mul(self, other)

div(self, other) ==
    CASE self.k = "Polynomial" -> Polynomial_div(self, other)
      [] self.k = "SMF0" -> SMF0_div(self, other)
      [] self.k = "SMFN" -> SMFN_div(self, other)

\* The operators of Algebraic.  An Equation has none of them and no is_zero:
\* as self it makes Python raise TypeError, as other AttributeError at the
\* first read of other.is_zero.
Algebraic_neg(self) ==
    IF ~IsAlgebraic(self) THEN Raised("TypeError") ELSE neg(self)

Algebraic_add(self, other) ==
    IF ~IsAlgebraic(self) THEN Raised("TypeError")
    ELSE IF is_zero(self) THEN other
    ELSE IF ~IsAlgebraic(other) THEN Raised("AttributeError")
    ELSE IF is_zero(other) THEN self
    ELSE add(self, other)

Algebraic_sub(self, other) ==
    IF ~IsAlgebraic(self) THEN Raised("TypeError")
    ELSE IF is_zero(self) THEN Algebraic_neg(other)
    ELSE IF ~IsAlgebraic(other) THEN Raised("AttributeError")
    ELSE IF is_zero(other) THEN self
    ELSE Algebraic_add(self, Algebraic_neg(other))

Algebraic_mul(self, other) ==
    IF ~IsAlgebraic(self) THEN Raised("TypeError")
    ELSE IF is_zero(self) THEN Zero
    ELSE IF ~IsAlgebraic(other) THEN Raised("AttributeError")
    ELSE IF is_zero(other) THEN Zero
    ELSE IF is_one(self) THEN other
    ELSE IF is_one(other) THEN self
    ELSE mul(self, other)

\* A division without the shortcut on a zero dividend.
Algebraic_truediv_of_zero(self, other) ==
    IF ~IsAlgebraic(self) THEN Raised("TypeError")
    ELSE IF ~IsAlgebraic(other) THEN Raised("AttributeError")
    ELSE IF is_zero(other) THEN Zero
    ELSE IF is_one(other) THEN self
    ELSE div(self, other)

\* A division whose shortcut on a zero divisor returns the dividend.
Algebraic_truediv_by_zero(self, other) ==
    IF ~IsAlgebraic(self) THEN Raised("TypeError")
    ELSE IF is_zero(self) THEN Zero
    ELSE IF ~IsAlgebraic(other) THEN Raised("AttributeError")
    ELSE IF is_zero(other) THEN self
    ELSE IF is_one(other) THEN self
    ELSE div(self, other)

Algebraic_truediv(self, other) ==
    IF ~IsAlgebraic(self) THEN Raised("TypeError")
    ELSE IF is_zero(self) THEN Zero
    ELSE IF ~IsAlgebraic(other) THEN Raised("AttributeError")
    ELSE IF is_zero(other) THEN Zero
    ELSE IF is_one(other) THEN self
    ELSE div(self, other)

\* The call of a method by its name; for make, self is the condition and
\* other the two branches.
Algebraic_op(m, self, other) ==
    CASE m = "neg" -> Algebraic_neg(self)
      [] m = "add" -> Algebraic_add(self, other)
      [] m = "sub" -> Algebraic_sub(self, other)
      [] m = "mul" -> Algebraic_mul(self, other)
      [] m = "truediv" -> Algebraic_truediv(self, other)
      [] m = "make" -> SMFN_make(self, other[1], other[2])

-----------------------------------------------------------------------------
(* The context-sensitive evaluator.  Polynomial._eval pops its first       *)
(* factor from a Python set, whose iteration order depends on the hashes   *)
(* of the factors: any factor may come first, so evaluation yields a set   *)
(* of possible results.                                                    *)

\* The terms of a sum other than its number: pairs <<index, coefficient>>.
NonConstTerms(p) == {<<i, p[i]>> : i \in {j \in 2..Len(p) : p[j] # R0}}
IsSum(p) == p # TX /\ Len(p) > 1

\* subs of a sum by 0 in a factor (Add._eval_subs): the terms of the old sum
\* are taken out of a sum that holds them all.
SubsSum(f, old) ==
    IF ~IsSum(f) \/ ~IsSum(old) THEN f
    ELSE IF NonConstTerms(old) \subseteq NonConstTerms(f) THEN TAdd(f, TNeg(old))
    ELSE IF NonConstTerms(TNeg(old)) \subseteq NonConstTerms(f) THEN TAdd(f, old)
    ELSE f

RECURSIVE SubsSums(_, _)
SubsSums(f, olds) ==
    IF olds = <<>> THEN f
    ELSE SubsSums(SubsSum(f, olds[1]), Tail(olds))

\* subs of every term of zeros by 0 in one factor: sums first, the symbol last.
SubsSymbol(g, zeros) == IF TX \in zeros /\ g # <<>> THEN Trim(SubSeq(g, 1, 1)) ELSE g
SubsFactor(f, zeros) == SubsSymbol(SubsSums(f, SortTerms({z \in zeros : IsSum(z)})), zeros)

RECURSIVE SubsProd(_, _)
RECURSIVE SubsProdFrom(_, _, _)
SubsProd(fs, zeros) ==
    IF fs = {} THEN TOne
    ELSE SubsProdFrom(fs, CHOOSE g \in fs : TRUE, zeros)
SubsProdFrom(fs, f, zeros) == TMul(SubsFactor(f, zeros), SubsProd(fs \ {f}, zeros))

SeqToSet(s) == {s[i] : i \in 1..Len(s)}

\* Polynomial._eval: the possible results.
eval_factors(fs, zeros, nonzeros) ==
    {Polynomial(SubsProd({first} \cup {f \in fs \ {first} : f \notin nonzeros}, zeros)) :
        first \in fs}
Polynomial_eval(self, zeros, nonzeros) ==
    IF is_constant(self) THEN {Polynomial(self.terms)}
    ELSE eval_factors(SeqToSet(factors(self)), zeros, nonzeros)

RECURSIVE eval(_, _, _)

\* A Ratio left as it is.
SMF0_eval_unevaluated(self, zeros, nonzeros) == {self}

\* SMF0._eval
SMF0_eval(self, zeros, nonzeros) ==
    {Algebraic_op("mul", lhs, rhs) : lhs \in eval(self.lhs, zeros, nonzeros),
                               rhs \in eval(self.rhs, zeros, nonzeros)}

\* The loop over the roots at the end of SMFN._eval, from the i-th root on.
RECURSIVE RootLoop(_, _, _, _, _)
RootLoop(self, roots, i, zeros, nonzeros) ==
    IF i > Len(roots) THEN {Zero}
    ELSE IF roots[i] \in nonzeros THEN RootLoop(self, roots, i + 1, zeros, nonzeros)
    ELSE UNION {IF ~is_zero(ret) THEN {ret}
                ELSE RootLoop(self, roots, i + 1, zeros, nonzeros) :
                    ret \in eval(self.Q, zeros \cup {roots[i]}, nonzeros)}

\* An SMFN._eval that makes the node over the condition of self.
SMFN_eval_roots_original(self, cond, roots, zeros, nonzeros) ==
    IF is_zero(cond) \/ zeros \cap SeqToSet(roots) # {} THEN eval(self.Q, zeros, nonzeros)
    ELSE UNION {
        IF is_constant(cond) \/ SeqToSet(roots) \subseteq nonzeros THEN {P}
        ELSE IF ~is_zero(P)
             THEN {SMFN_make(self.cond, P, q) : q \in eval(self.Q, zeros, nonzeros)}
        ELSE RootLoop(self, roots, 1, zeros, nonzeros) :
            P \in eval(self.P, zeros, nonzeros \cup SeqToSet(roots))}

\* SMFN._eval for one value of the evaluated condition.
SMFN_eval_roots(self, cond, roots, zeros, nonzeros) ==
    IF is_zero(cond) \/ zeros \cap SeqToSet(roots) # {} THEN eval(self.Q, zeros, nonzeros)
    ELSE UNION {
        IF is_constant(cond) \/ SeqToSet(roots) \subseteq nonzeros THEN {P}
        ELSE IF ~is_zero(P)
             THEN {SMFN_make(cond, P, q) : q \in eval(self.Q, zeros, nonzeros)}
        ELSE RootLoop(self, roots, 1, zeros, nonzeros) :
            P \in eval(self.P, zeros, nonzeros \cup SeqToSet(roots))}
SMFN_eval_cond(self, cond, zeros, nonzeros) ==
    SMFN_eval_roots(self, cond, factors(cond), zeros, nonzeros)

SMFN_eval(self, zeros, nonzeros) ==
    UNION {SMFN_eval_cond(self, cond, zeros, nonzeros) : cond \in eval(self.cond, zeros, nonzeros)}

\* Expression.eval of an Algebraic.
eval(self, zeros, nonzeros) ==
    CASE self.k = "Polynomial" -> Polynomial_eval(self, zeros, nonzeros)
      [] self.k = "SMF0" -> SMF0_eval(self, zeros, nonzeros)
      [] self.k = "SMFN" -> SMFN_eval(self, zeros, nonzeros)

\* The hypotheses of the calls of eval that one evaluation makes, its own
\* included, over every order of the factors: pairs <<zeros, nonzeros>>.
RECURSIVE eval_calls(_, _, _)

\* The calls of the loop over the roots, from the i-th root on.
RECURSIVE RootLoop_calls(_, _, _, _, _)
RootLoop_calls(self, roots, i, zeros, nonzeros) ==
    IF i > Len(roots) THEN {}
    ELSE IF roots[i] \in nonzeros THEN RootLoop_calls(self, roots, i + 1, zeros, nonzeros)
    ELSE eval_calls(self.Q, zeros \cup {roots[i]}, nonzeros)
         \cup (IF \E ret \in eval(self.Q, zeros \cup {roots[i]}, nonzeros) : is_zero(ret)
               THEN RootLoop_calls(self, roots, i + 1, zeros, nonzeros)
               ELSE {})

\* The calls of SMFN._eval after the evaluation of the condition.
SMFN_eval_calls(self, cond, roots, zeros, nonzeros) ==
    IF is_zero(cond) \/ zeros \cap SeqToSet(roots) # {} THEN eval_calls(self.Q, zeros, nonzeros)
    ELSE eval_calls(self.P, zeros, nonzeros \cup SeqToSet(roots))
         \cup UNION {
            IF is_constant(cond) \/ SeqToSet(roots) \subseteq nonzeros THEN {}
            ELSE IF ~is_zero(P) THEN eval_calls(self.Q, zeros, nonzeros)
            ELSE RootLoop_calls(self, roots, 1, zeros, nonzeros) :
                P \in eval(self.P, zeros, nonzeros \cup SeqToSet(roots))}

eval_calls(self, zeros, nonzeros) ==
    {<<zeros, nonzeros>>} \cup
    CASE self.k = "Polynomial" -> {}
      [] self.k = "SMF0" ->
            eval_calls(self.lhs, zeros, nonzeros) \cup eval_calls(self.rhs, zeros, nonzeros)
      [] self.k = "SMFN" ->
            eval_calls(self.cond, zeros, nonzeros)
            \cup UNION {SMFN_eval_calls(self, cond, factors(cond), zeros, nonzeros) :
                           cond \in eval(self.cond, zeros, nonzeros)}

-----------------------------------------------------------------------------
(* The parser (parser.py).  Tokens are strings: an operand "0", "1" or     *)
(* "x", an operator, or a parenthesis.  An item of the expression stack    *)
(* holds the expression and, beside it, the tree of the operator           *)
(* applications that built it.                                             *)

OperandTokens == {"0", "1", "x"}
OperatorTokens == {"=", "+", "-", "*", "/"}
ArithmeticTokens == OperatorTokens \ {"="}
LeftParen == "("
RightParen == ")"

\* _read_symbol, _read_number: the Polynomial of an operand token.
Operand(tok) ==
    CASE tok = "0" -> Polynomial(TZero)
      [] tok = "1" -> Polynomial(TOne)
      [] tok = "x" -> Polynomial(TX)

\* _OPERATORS: precedence and evaluation; every operator is binary and
\* left associative.
prec(op) == CASE op = "=" -> 0 [] op \in {"+", "-"} -> 1 [] op \in {"*", "/"} -> 2
assocLeft(op) == TRUE

\* A comparison by precedence alone.
Operator_lt_strict(self, other) == prec(self) > prec(other)

\* _Operator.__lt__
Operator_lt(self, other) ==
    prec(self) > prec(other) \/ (prec(self) = prec(other) /\ assocLeft(self))

\* x + -y: the negation is computed first, and its exception propagates.
add_negated(x, ny) == IF IsRaised(ny) THEN ny ELSE Algebraic_op("add", x, ny)

Operator_eval(op, x, y) ==
    CASE op = "=" -> Equation(x, y)
      [] op = "+" -> Algebraic_op("add", x, y)
      [] op = "-" -> add_negated(x, Algebraic_op("neg", y, y))
      [] op = "*" -> Algebraic_op("mul", x, y)
      [] op = "/" -> Algebraic_op("truediv", x, y)

Item(v, t) == [v |-> v, t |-> t]
Leaf(tok) == <<tok>>
Node(op, l, r) == <<op, l, r>>

\* The state of a parse: the two stacks, the exception raised ("none" when
\* none), and whether an operator was applied to fewer than two operands.
PState(es, os, exc, dangling) == [es |-> es, os |-> os, exc |-> exc, dangling |-> dangling]
Top(s) == s[Len(s)]
Pop(s) == SubSeq(s, 1, Len(s) - 1)

\* _pop_operator, the operator applied to the two operands popped and the
\* result pushed.
push_result(st, operator, os, x, y, r) ==
    IF IsRaised(r) THEN PState(st.es, os, r.exc, st.dangling)
    ELSE PState(Append(SubSeq(st.es, 1, Len(st.es) - 2), Item(r, Node(operator, x.t, y.t))),
                os, "none", st.dangling)

\* _pop_operator after the pop of the operator stack; missing is the
\* exception for missing operands.
pop_operands(st, operator, os, missing) ==
    IF operator = LeftParen THEN PState(st.es, os, "ParenError", st.dangling)
    ELSE IF Len(st.es) < 2 THEN PState(st.es, os, missing, TRUE)
    ELSE push_result(st, operator, os, st.es[Len(st.es) - 1], st.es[Len(st.es)],
                     Operator_eval(operator, st.es[Len(st.es) - 1].v, st.es[Len(st.es)].v))

\* A pop that leaves the stacks alone when operands are missing.
pop_operator_lenient(st) == pop_operands(st, Top(st.os), Pop(st.os), "none")

\* _pop_operator
pop_operator(st) == pop_operands(st, Top(st.os), Pop(st.os), "ParseError")

\* _pop_until_lower_precedence
RECURSIVE pop_until_lower_precedence(_, _)
pop_until_lower_precedence(st, operator) ==
    IF st.exc = "none" /\ st.os # <<>> /\ Top(st.os) # LeftParen
       /\ Operator_lt(Top(st.os), operator)
    THEN pop_until_lower_precedence(pop_operator(st), operator)
    ELSE st

\* _pop_until_left_paren
RECURSIVE pop_while_not_left_paren(_)
pop_while_not_left_paren(st) ==
    IF st.exc = "none" /\ st.os # <<>> /\ Top(st.os) # LeftParen
    THEN pop_while_not_left_paren(pop_operator(st))
    ELSE st

\* _pop_until_left_paren after its loop; empty is the exception for an
\* empty operator stack.
pop_left_paren(s1, empty) ==
    IF s1.exc # "none" THEN s1
    ELSE IF s1.os = <<>> THEN PState(s1.es, s1.os, empty, s1.dangling)
    ELSE PState(s1.es, Pop(s1.os), "none", s1.dangling)

\* A search for the left parenthesis that accepts an empty stack.
pop_until_left_paren_lenient(st) == pop_left_paren(pop_while_not_left_paren(st), "none")

pop_until_left_paren(st) == pop_left_paren(pop_while_not_left_paren(st), "ParenError")

\* parse: op_stack.append(token) after _pop_until_lower_precedence.
push_operator(s1, token) ==
    IF s1.exc # "none" THEN s1 ELSE PState(s1.es, Append(s1.os, token), "none", s1.dangling)

\* parse: the body of the loop for one token.
parse_token(st, token) ==
    IF token \in OperandTokens
    THEN PState(Append(st.es, Item(Operand(token), Leaf(token))), st.os, "none", st.dangling)
    ELSE IF token \in OperatorTokens
    THEN push_operator(pop_until_lower_precedence(st, token), token)
    ELSE IF token = LeftParen
    THEN PState(st.es, Append(st.os, token), "none", st.dangling)
    ELSE pop_until_left_paren(st)

\* parse: after the last token, the remaining operators and the assertion.
RECURSIVE pop_all(_)
pop_all(st) ==
    IF st.exc = "none" /\ st.os # <<>> THEN pop_all(pop_operator(st)) ELSE st

parse_assert(s1) ==
    IF s1.exc # "none" THEN s1
    ELSE IF ~(Len(s1.es) = 1 /\ Len(s1.os) = 0)
    THEN PState(s1.es, s1.os, "AssertionError", s1.dangling)
    ELSE s1
parse_end(st) == parse_assert(pop_all(st))


-----------------------------------------------------------------------------
(* State.  Two programs share the prover: one applies the operators to     *)
(* expressions held in two registers, as the parser does when it pops an   *)
(* operator; the other runs _prove on a line of tokens.                    *)

VARIABLES a, b, nops, last, made, evald,
          input, ref, pos, expr_stack, op_stack, dangling,
          pc, parsed, diff, variables, i, ev, log, outcome, exc

vars == <<a, b, nops, last, made, evald,
          input, ref, pos, expr_stack, op_stack, dangling,
          pc, parsed, diff, variables, i, ev, log, outcome, exc>>

algebraVars == <<a, b, nops, last, made, evald>>
textVars == <<input, ref, pos, expr_stack, op_stack, dangling>>
proverVars == <<parsed, diff, variables, i, ev, log>>

MaxOps == 1

X == Polynomial(TX)
Leaves == {Zero, One, X}
None == [k |-> "None"]
NoOp == [op |-> "none"]

\* Expressions the operators build from the leaves, as starting operands.
Xp1 == Algebraic_op("add", X, One)
Seeds == Leaves \cup {Xp1, Algebraic_op("truediv", One, X), Algebraic_op("truediv", X, X),
                      Algebraic_op("mul", X, Algebraic_op("truediv", X, X)),
                      Algebraic_op("truediv", X, Xp1),
                      Algebraic_op("add", One, Algebraic_op("truediv", One, X)),
                      Algebraic_op("add", One, Algebraic_op("truediv", One, Xp1))}

\* The exceptions _prove catches around parse; any other escapes it.
Caught == {"AlgebraError", "ParseError", "ParenError"}
Reported(e) == IF e \in Caught THEN "error" ELSE "crashed"

proverIdle ==
    /\ parsed = None /\ diff = None /\ variables = <<>> /\ i = 0
    /\ ev = None /\ log = <<>> /\ outcome = "none" /\ exc = "none"

algebraIdle ==
    /\ a = None /\ b = None /\ nops = 0 /\ last = NoOp /\ made = NoOp
    /\ evald = NoOp
textIdle ==
    /\ input = <<>> /\ ref = <<>> /\ pos = 1 /\ expr_stack = <<>>
    /\ op_stack = <<>> /\ dangling = "none"

Init ==
    /\ a \in Seeds \cup {Equation(X, One), Equation(Algebraic_op("truediv", Xp1, Xp1), One)}
    /\ b \in Seeds
    /\ nops = 0 /\ last = NoOp /\ made = NoOp /\ evald = NoOp
    /\ textIdle
    /\ pc = "build"
    /\ proverIdle

\* One operator applied to two operands; an exception ends the run as it
\* ends parse.
Operate(op, x, y) ==
    /\ pc = "build"
    /\ nops < MaxOps
    /\ \E r \in {Operator_eval(op, x, y)} :
           /\ last' = [op |-> op, x |-> x, y |-> y, r |-> r]
           /\ IF IsRaised(r)
              THEN /\ a' = a /\ exc' = r.exc /\ outcome' = Reported(r.exc)
                   /\ pc' = "done"
              ELSE /\ a' = r /\ pc' = pc
                   /\ UNCHANGED <<exc, outcome>>
    /\ nops' = nops + 1
    /\ UNCHANGED <<b, made, evald, textVars, proverVars>>

\* A call of SMFN.make on a polynomial condition and two branches taken
\* from the registers.
Make(c, p, q) ==
    /\ pc = "build"
    /\ c.k = "Polynomial" /\ IsAlgebraic(p) /\ IsAlgebraic(q)
    /\ made' = [cond |-> c, P |-> p, Q |-> q, r |-> SMFN_make(c, p, q)]
    /\ pc' = "made"
    /\ a' = None /\ b' = None /\ last' = NoOp
    /\ UNCHANGED <<nops, evald, textVars, proverVars, outcome, exc>>

\* parse returns the expression built; its stacks are gone.
Submit ==
    /\ pc = "build"
    /\ parsed' = a
    /\ pc' = "parsed"
    /\ a' = None /\ b' = None /\ last' = NoOp
    /\ UNCHANGED <<nops, made, evald, textVars, diff, variables, i, ev, log, outcome, exc>>

Build ==
    \/ \E op \in OperatorTokens : \E o \in Leaves \cup {b} :
          Operate(op, a, o) \/ Operate(op, o, a)
    \/ \E c \in Leaves \cup {a, b} : Make(c, a, b) \/ Make(c, b, b)
    \/ Submit

-----------------------------------------------------------------------------
(* _prove after parse, and Equation._eval.                                 *)

Perms(S) == {s \in [1..Cardinality(S) -> S] : \A j, k \in 1..Cardinality(S) : s[j] = s[k] => j = k}
Bit(n, k) == (n \div IPow(2, k - 1)) % 2
cur_zeros_swapped(n, vs) == {vs[k] : k \in {j \in 1..Len(vs) : Bit(n, j) = 1}}
cur_zeros_all(n, vs) == {vs[k] : k \in 1..Len(vs)}
cur_zeros(n, vs) == {vs[k] : k \in {j \in 1..Len(vs) : Bit(n, j) = 0}}
cur_nonzeros(n, vs) == {vs[k] : k \in {j \in 1..Len(vs) : Bit(n, j) = 1}}

\* _prove: an Algebraic is printed and no verdict is given.
Notice ==
    /\ pc = "parsed"
    /\ IsAlgebraic(parsed)
    /\ outcome' = "notice"
    /\ pc' = "done"
    /\ UNCHANGED <<algebraVars, textVars, proverVars, exc>>

\* Equation._eval up to the loop: the difference and its variables.
EvalStart ==
    /\ pc = "parsed"
    /\ ~IsAlgebraic(parsed)
    /\ \E d \in {Algebraic_op("sub", parsed.lhs, parsed.rhs)} :
           IF IsRaised(d)
           THEN /\ exc' = d.exc /\ outcome' = "crashed" /\ pc' = "done"
                /\ UNCHANGED <<diff, variables>>
           ELSE /\ diff' = d
                /\ variables' \in Perms(free_variables(d))
                /\ pc' = "loop"
                /\ UNCHANGED <<exc, outcome>>
    /\ UNCHANGED <<algebraVars, textVars, parsed, i, ev, log>>

\* One iteration of the loop over the bit patterns, and its exit.
LoopIter ==
    /\ pc = "loop"
    /\ \E zs \in {cur_zeros(i, variables)}, nzs \in {cur_nonzeros(i, variables)} :
           \E e \in eval(diff, zs, nzs) :
              /\ ev' = e
              /\ log' = Append(log, [i |-> i, zeros |-> zs, nonzeros |-> nzs, result |-> e])
              /\ IF e.k # "Polynomial" \/ ~is_zero(e)
                 THEN pc' = "returned" /\ i' = i
                 ELSE /\ i' = i + 1
                      /\ pc' = IF i + 1 < IPow(2, Len(variables)) THEN "loop" ELSE "returned"
    /\ UNCHANGED <<algebraVars, textVars, parsed, diff, variables, outcome, exc>>

\* _prove: the verdict on the expression Equation._eval returned.
Verdict ==
    /\ pc = "returned"
    /\ outcome' = IF is_zero(ev) THEN "TRUE" ELSE "FALSE"
    /\ pc' = "done"
    /\ UNCHANGED <<algebraVars, textVars, proverVars, exc>>

Prover == Notice \/ EvalStart \/ LoopIter \/ Verdict

Next == Build \/ Prover

Spec == Init /\ [][Next]_vars

-----------------------------------------------------------------------------
(* The evaluator as a function: eval applied to an expression the          *)
(* operators build, under a hypothesis whose zero and nonzero terms are    *)
(* disjoint.                                                               *)

\* 1 + 1/(x*(x+1)*(x+2)): a branch whose condition is a product of three
\* factors.
ProductBranch ==
    Algebraic_op("add", One,
        Algebraic_op("truediv", One, Polynomial(TMul(TMul(TX, Xp1.terms), TAdd(Xp1.terms, TOne)))))

EvalInputs ==
    Seeds \cup {Operator_eval(op, s, t) : op \in ArithmeticTokens, s \in Seeds, t \in Seeds}
          \cup {ProductBranch}
HypTerms == {TX, Xp1.terms}

InitEval ==
    /\ a \in EvalInputs /\ b = None
    /\ nops = 0 /\ last = NoOp /\ made = NoOp /\ evald = NoOp
    /\ textIdle
    /\ pc = "build"
    /\ proverIdle

Evaluate(zs, nzs) ==
    /\ pc = "build"
    /\ zs \cap nzs = {}
    /\ \E r \in eval(a, zs, nzs) :
          evald' = [self |-> a, zeros |-> zs, nonzeros |-> nzs, r |-> r]
    /\ pc' = "evaluated"
    /\ UNCHANGED <<a, b, nops, last, made, textVars, proverVars, outcome, exc>>

NextEval == \E zs, nzs \in SUBSET HypTerms : Evaluate(zs, nzs)

SpecEval == InitEval /\ [][NextEval]_vars

-----------------------------------------------------------------------------
(* _prove on a line of tokens.  The lines are every token sequence up to   *)
(* MaxLen and the well-formed lines printed from the expression trees of   *)
(* up to MaxTreeOps operators, whose tree is kept as reference.            *)

MaxLen == 4
MaxTreeOps == 2

Alphabet == {"0", "x"} \cup OperatorTokens \cup {LeftParen, RightParen}

RECURSIVE Lines(_)
Lines(n) ==
    IF n = 0 THEN {<<>>}
    ELSE Lines(n - 1) \cup {Append(l, t) : l \in {m \in Lines(n - 1) : Len(m) = n - 1},
                                           t \in Alphabet}

\* Trees of exactly n operators over the leaf x; the last field of a node
\* tells whether it is written in parentheses.
RECURSIVE Trees(_)
Trees(n) ==
    IF n = 0 THEN {Leaf("x")}
    ELSE UNION {{<<op, l, r, p>> : op \in OperatorTokens, l \in Trees(k),
                                    r \in Trees(n - 1 - k), p \in BOOLEAN} :
                   k \in 0..(n - 1)}

IsNode(t) == Len(t) > 1

\* A tree is written as it reads when every operand without parentheses
\* binds tighter than its operator, or as tight on the left.
RECURSIVE Reads(_)
Reads(t) ==
    ~IsNode(t) \/
       /\ (IsNode(t[2]) /\ ~t[2][4]) => prec(t[2][1]) >= prec(t[1])
       /\ (IsNode(t[3]) /\ ~t[3][4]) => prec(t[3][1]) > prec(t[1])
       /\ Reads(t[2]) /\ Reads(t[3])

RECURSIVE Written(_)
Written(t) ==
    IF ~IsNode(t) THEN t
    ELSE (IF t[4] THEN <<LeftParen>> ELSE <<>>) \o Written(t[2]) \o <<t[1]>>
         \o Written(t[3]) \o (IF t[4] THEN <<RightParen>> ELSE <<>>)

RECURSIVE Reference(_)
Reference(t) ==
    IF ~IsNode(t) THEN t ELSE Node(t[1], Reference(t[2]), Reference(t[3]))

WellFormed == {t \in UNION {Trees(n) : n \in 1..MaxTreeOps} : Reads(t)}

InitText ==
    /\ \/ input \in Lines(MaxLen) /\ ref = <<>>
       \/ \E t \in WellFormed : input = Written(t) /\ ref = Reference(t)
    /\ pos = 1 /\ expr_stack = <<>> /\ op_stack = <<>> /\ dangling = "none"
    /\ algebraIdle
    /\ pc = "parsing"
    /\ proverIdle

\* Where an operator is applied: at an operator token, at a right
\* parenthesis, or at the end of the line.
Site(token) == IF token \in OperatorTokens THEN "operator" ELSE "rparen"

\* parse raises: _prove reports the exception or lets it escape.
ParseRaises(st, site) ==
    /\ exc' = st.exc
    /\ outcome' = Reported(st.exc)
    /\ dangling' = IF st.dangling THEN site ELSE "none"
    /\ pc' = "done"
    /\ UNCHANGED <<algebraVars, input, ref, pos, expr_stack, op_stack, proverVars>>

\* parse: one token of the line.
ParseToken ==
    /\ pc = "parsing"
    /\ pos <= Len(input)
    /\ \E st \in {parse_token(PState(expr_stack, op_stack, "none", FALSE), input[pos])} :
           IF st.exc # "none" THEN ParseRaises(st, Site(input[pos]))
           ELSE /\ expr_stack' = st.es
                /\ op_stack' = st.os
                /\ pos' = pos + 1
                /\ UNCHANGED <<algebraVars, input, ref, dangling, pc, proverVars, outcome, exc>>

\* parse: the end of the line, and the return of the expression.
ParseEnd ==
    /\ pc = "parsing"
    /\ pos > Len(input)
    /\ \E st \in {parse_end(PState(expr_stack, op_stack, "none", FALSE))} :
           IF st.exc # "none" THEN ParseRaises(st, "end")
           ELSE /\ expr_stack' = st.es
                /\ op_stack' = st.os
                /\ parsed' = st.es[1].v
                /\ pc' = "parsed"
                /\ UNCHANGED <<algebraVars, input, ref, pos, dangling, diff, variables,
                               i, ev, log, outcome, exc>>

NextText == ParseToken \/ ParseEnd \/ Prover

SpecText == InitText /\ [][NextText]_vars

-----------------------------------------------------------------------------
(* Properties of the prover, the arithmetic and the evaluator.             *)

Pow2(n) == IPow(2, n)
BitsAt(n, vs, v) == {vs[j] : j \in {m \in 1..Len(vs) : (n \div Pow2(m - 1)) % 2 = v}}
AllZero(n) == \A k \in 1..n : is_zero(log[k].result)

\* C1: the prover visits the hypotheses in increasing index order from 0,
\* one bit per free variable of lhs - rhs, a cleared bit putting the
\* variable in the zero set and a set bit in the nonzero set; it stops at
\* the first hypothesis whose evaluation is not the zero Polynomial, returns
\* that evaluation and the verdict is FALSE; the verdict is TRUE only when
\* all 2^|V| hypotheses were evaluated and each gave zero.
C1_ProverLoop ==
    /\ log # <<>> =>
          /\ diff = Algebraic_op("sub", parsed.lhs, parsed.rhs)
          /\ SeqToSet(variables) = free_variables(diff)
          /\ Len(variables) = Cardinality(free_variables(diff))
    /\ \A k \in 1..Len(log) :
          /\ log[k].i = k - 1
          /\ log[k].i < Pow2(Len(variables))
          /\ log[k].zeros = BitsAt(log[k].i, variables, 0)
          /\ log[k].nonzeros = BitsAt(log[k].i, variables, 1)
    /\ AllZero(Len(log) - 1)
    /\ pc = "loop" => i = Len(log) /\ AllZero(Len(log))
    /\ (pc = "returned" \/ outcome \in {"TRUE", "FALSE"}) =>
          /\ log # <<>>
          /\ ev = log[Len(log)].result
          /\ is_zero(ev) => Len(log) = Pow2(Len(variables))
    /\ outcome = "TRUE" => is_zero(ev) /\ Len(log) = Pow2(Len(variables)) /\ AllZero(Len(log))
    /\ outcome = "FALSE" => ~is_zero(ev)

C1_Witness == outcome = "TRUE" /\ Len(variables) = 1 /\ Len(log) = 2

\* C2 as claimed: eval always returns a Polynomial.
C2_AlwaysPolynomial == evald # NoOp => evald.r.k = "Polynomial"

\* C2: eval of a Polynomial or of a Ratio returns a Polynomial; eval of a
\* ConditionalBranch returns a Polynomial or a ConditionalBranch, never a
\* Ratio, and a ConditionalBranch only when no root of its condition is in
\* the zero set and some root is not in the nonzero set.
C2_EvalResult ==
    evald # NoOp =>
       /\ evald.r.k \in {"Polynomial", "SMFN"}
       /\ evald.self.k \in {"Polynomial", "SMF0"} => evald.r.k = "Polynomial"
       /\ evald.r.k = "SMFN" =>
             \E roots \in {SeqToSet(factors(evald.r.cond))} :
                 roots \cap evald.zeros = {} /\ ~(roots \subseteq evald.nonzeros)

C2_Witness == evald # NoOp /\ evald.r.k = "SMFN"

\* C3: for an Algebraic a: a + zero and zero + a are a, a * zero, zero * a
\* and a / zero are zero, a * one, one * a and a / one are a.
C3_Shortcuts ==
    last # NoOp =>
       /\ (last.op = "+" /\ IsAlgebraic(last.x) /\ is_zero(last.y)) => last.r = last.x
       /\ (last.op = "+" /\ is_zero(last.x) /\ IsAlgebraic(last.y)) => last.r = last.y
       /\ (last.op = "*" /\ IsAlgebraic(last.x) /\ is_zero(last.y)) => last.r = Zero
       /\ (last.op = "*" /\ is_zero(last.x) /\ IsAlgebraic(last.y)) => last.r = Zero
       /\ (last.op = "/" /\ IsAlgebraic(last.x) /\ is_zero(last.y)) => last.r = Zero
       /\ (last.op = "*" /\ IsAlgebraic(last.x) /\ is_one(last.y)) => last.r = last.x
       /\ (last.op = "*" /\ is_one(last.x) /\ IsAlgebraic(last.y)) => last.r = last.y
       /\ (last.op = "/" /\ IsAlgebraic(last.x) /\ is_one(last.y)) => last.r = last.x

C3_Witness == last # NoOp /\ last.op = "/" /\ is_one(last.y) /\ last.x.k = "SMFN"

\* The condition as SMFN.make normalises it.
NormCond(c) == Polynomial(TProd(factors(c), 1))
IsOrHolds(q, n) ==
    \/ q.k = "Polynomial" /\ q = n
    \/ q.k = "SMF0" /\ (q.lhs = n \/ q.rhs = n)
QRewritten(c, q) == IsOrHolds(q, NormCond(c))

\* C4 as claimed: make(cond, P, P) returns P.
C4_EqualBranches == (made # NoOp /\ made.P = made.Q) => made.r = made.P

\* C4: make(cond, P, P) returns P, also when P is a ConditionalBranch with
\* the same condition, unless the condition is not constant and P is the
\* condition itself or a Ratio whose numerator or denominator is the
\* condition: Q is then rewritten to zero before the branches are compared
\* and make returns the node (cond ? P : 0).
C4_EqualBranchesRewritten ==
    (made # NoOp /\ made.P = made.Q) =>
       IF QRewritten(made.cond, made.Q) /\ ~is_constant(made.cond)
       THEN made.r = SMFN(NormCond(made.cond), made.P, Zero)
       ELSE made.r = made.P

C4_Witness ==
    /\ made # NoOp /\ made.P = made.Q
    /\ made.P.k = "SMFN" /\ made.P.cond = made.cond

RECURSIVE NodesOK(_)
NodesOK(e) ==
    CASE e.k = "SMFN" ->
            /\ ~is_constant(e.cond) /\ e.P # e.Q
            /\ NodesOK(e.cond) /\ NodesOK(e.P) /\ NodesOK(e.Q)
      [] e.k \in {"SMF0", "Equation"} -> NodesOK(e.lhs) /\ NodesOK(e.rhs)
      [] OTHER -> TRUE

\* C5: SMFN.make returns Q for a zero condition and P for a nonzero
\* constant condition, and no ConditionalBranch node, at any depth of any
\* expression built, evaluated or returned by make, has a constant
\* condition or two equal branches.
C5_NodesNormal ==
    /\ NodesOK(a) /\ NodesOK(b) /\ NodesOK(parsed) /\ NodesOK(diff) /\ NodesOK(ev)
    /\ made # NoOp =>
          /\ NodesOK(made.r)
          /\ is_zero(made.cond) => made.r = made.Q
          /\ (is_constant(made.cond) /\ ~is_zero(made.cond)) => made.r = made.P

C5_Witness ==
    /\ made # NoOp /\ is_zero(made.cond)
    /\ made.P.k = "SMFN" /\ made.P # made.Q /\ made.r = made.Q

\* C10 as claimed: an arithmetic operator applied to two Algebraic operands
\* returns an Algebraic, and applied to anything else raises AlgebraError.
C10_ClosedOrAlgebraError ==
    (last # NoOp /\ last.op \in ArithmeticTokens) =>
       IF IsAlgebraic(last.x) /\ IsAlgebraic(last.y)
       THEN IsAlgebraic(last.r)
       ELSE last.r = Raised("AlgebraError")

-----------------------------------------------------------------------------
(* Properties of the parser and of _prove on a line.                       *)

ParseReturned == parsed # None
ParseRaised == pc = "done" /\ parsed = None

\* An equation is an operand of an arithmetic operator somewhere in a tree.
RECURSIVE EquationOperand(_)
EquationOperand(t) ==
    /\ IsNode(t)
    /\ \/ t[1] \in ArithmeticTokens /\ \E c \in {t[2], t[3]} : IsNode(c) /\ c[1] = "="
       \/ EquationOperand(t[2])
       \/ EquationOperand(t[3])

C7_DanglingOperator ==
    dangling # "none" =>
       /\ ParseRaised
       /\ exc = "ParseError"
       /\ outcome = "error"

C7_Witness == dangling = "rparen" /\ exc = "ParseError"

RECURSIVE Depths(_, _)
Depths(line, n) ==
    IF n = 0 THEN 0
    ELSE Depths(line, n - 1)
         + (IF line[n] = LeftParen THEN 1 ELSE IF line[n] = RightParen THEN -1 ELSE 0)
Unbalanced(line) ==
    \/ \E n \in 1..Len(line) : Depths(line, n) < 0
    \/ Depths(line, Len(line)) > 0

\* C8 as claimed: on every line with unbalanced parentheses parse raises
\* ParenError.
C8_ParenErrorAlways ==
    (Unbalanced(input) /\ pc # "parsing") => ParseRaised /\ exc = "ParenError"

\* C8: on every line with unbalanced parentheses parse returns no
\* expression; it raises ParenError, when the operator stack empties in the
\* search for "(" and when "(" is popped at the end of the line, unless an
\* operator applied before that point raised: ParseError for missing
\* operands, TypeError or AttributeError for an equation operand.
C8_UnbalancedRaises ==
    (Unbalanced(input) /\ pc # "parsing") =>
       /\ ParseRaised
       /\ \/ exc = "ParenError" /\ dangling = "none"
          \/ exc = "ParseError" /\ dangling # "none"
          \/ exc \in {"TypeError", "AttributeError"}
       /\ exc \in Caught => outcome = "error"

C8_Witness ==
    /\ Unbalanced(input) /\ exc = "ParenError"
    /\ pos > Len(input) /\ Len(expr_stack) = 1

\* C9 as claimed: every run of _prove ends in a verdict, a notice or a
\* reported error; no exception escapes it.
C9_NoEscape == pc = "done" => outcome \in {"TRUE", "FALSE", "notice", "error"}

-----------------------------------------------------------------------------
(* Properties of the expressions the arithmetic builds.                    *)

\* The ConditionalBranch nodes of an expression, itself included.
RECURSIVE Branches(_)
Branches(e) ==
    CASE e.k = "SMFN" -> {e} \cup Branches(e.P) \cup Branches(e.Q)
      [] e.k \in {"SMF0", "Equation"} -> Branches(e.lhs) \cup Branches(e.rhs)
      [] OTHER -> {}

\* The expressions the operators and make have built.
Built == {a, parsed, diff} \cup (IF made # NoOp THEN {made.r} ELSE {})
BuiltBranches == UNION {Branches(e) : e \in Built}

\* C11 as claimed: no ConditionalBranch node has a descendant
\* ConditionalBranch, at any depth, with the condition of that ancestor.
C11_NoSharedConditionBelow ==
    \A n \in BuiltBranches :
       \A d \in Branches(n.P) \cup Branches(n.Q) : d.cond # n.cond

\* C11: no ConditionalBranch node has a child that is a ConditionalBranch
\* with its condition; a deeper descendant may have it.
C11_NoSharedConditionChild ==
    \A n \in BuiltBranches :
       \A d \in {n.P, n.Q} : d.k = "SMFN" => d.cond # n.cond

C11_Witness ==
    \E n \in Branches(a) :
       /\ n.P.k = "SMFN" /\ n.P.cond # n.cond
       /\ \E d \in Branches(n.P.P) \cup Branches(n.P.Q) : d.cond = n.cond

\* The Ratio nodes of an expression, itself included.
RECURSIVE Ratios(_)
Ratios(e) ==
    CASE e.k = "SMFN" -> Ratios(e.P) \cup Ratios(e.Q)
      [] e.k = "SMF0" -> {e}
      [] e.k = "Equation" -> Ratios(e.lhs) \cup Ratios(e.rhs)
      [] OTHER -> {}
BuiltRatios == UNION {Ratios(e) : e \in Built}

\* C12 as claimed: every Ratio node an arithmetic operation produces has a
\* denominator that is not constant, also when a Polynomial is divided by
\* a Ratio whose numerator is constant.
C12_DenominatorNotConstant == \A r \in BuiltRatios : ~is_constant(r.rhs)

\* A Ratio is combined with a ConditionalBranch on its denominator.
SharedCondition ==
    /\ last # NoOp /\ last.op \in {"+", "*", "/"}
    /\ last.x.k = "SMF0" /\ last.y.k = "SMFN" /\ last.x.rhs = last.y.cond

\* The node of the shared condition whose true branch is r op P, over the
\* false branches the operation may give it.
BranchWise(op, r, node) ==
    {SMFN_make(node.cond, p, q) : p \in {Operator_eval(op, r, node.P)},
                                  q \in {node.Q, Zero, Operator_eval(op, r, node.Q)}}

\* C13 as claimed: a Ratio p/c combined by +, * or / with a
\* ConditionalBranch (c ? P : Q) gives the branch on c whose true branch is
\* the Ratio combined with P.
C13_TrueBranchCombined == SharedCondition => last.r \in BranchWise(last.op, last.x, last.y)

-----------------------------------------------------------------------------
(* Properties of the evaluator under a hypothesis.                         *)

\* The product of the factors of p outside the nonzero set, with the terms
\* of the zero set replaced by 0.
Reduced(p, zeros, nonzeros) ==
    Polynomial(SubsProd({f \in SeqToSet(factors(p)) : f \notin nonzeros}, zeros))

\* C14 as claimed: a Polynomial that is not constant evaluates to the
\* product of its distinct factors outside the nonzero set, with the terms
\* of the zero set replaced by 0, whichever factor comes first.
C14_NonzeroFactorsDropped ==
    (evald # NoOp /\ evald.self.k = "Polynomial" /\ ~is_constant(evald.self)) =>
       evald.r = Reduced(evald.self, evald.zeros, evald.nonzeros)

\* The roots of an evaluated condition that is neither zero nor constant:
\* none is in the zero set and one is outside the nonzero set.
OpenCondition(c, zeros, nonzeros) ==
    /\ ~is_zero(c) /\ ~is_constant(c)
    /\ SeqToSet(factors(c)) \cap zeros = {}
    /\ ~(SeqToSet(factors(c)) \subseteq nonzeros)

\* Whichever factor comes first, the evaluated condition is open and the
\* evaluated P is not the zero polynomial.
NodeRemade(self, zeros, nonzeros) ==
    \A c \in eval(self.cond, zeros, nonzeros) :
       /\ OpenCondition(c, zeros, nonzeros)
       /\ \A P \in eval(self.P, zeros, nonzeros \cup SeqToSet(factors(c))) : ~is_zero(P)

\* make over the evaluated condition, or over the condition of self, of the
\* evaluated P and Q.
RemadeNodes(self, zeros, nonzeros, original) ==
    UNION {{SMFN_make(IF original THEN self.cond ELSE c, P, q) :
               P \in eval(self.P, zeros, nonzeros \cup SeqToSet(factors(c))),
               q \in eval(self.Q, zeros, nonzeros)} :
              c \in eval(self.cond, zeros, nonzeros)}

EvaluatedBranch ==
    /\ evald # NoOp /\ evald.self.k = "SMFN"
    /\ NodeRemade(evald.self, evald.zeros, evald.nonzeros)

\* C15 as claimed: the result is make over the original condition of the
\* node.
C15_OverOriginalCondition ==
    EvaluatedBranch => evald.r \in RemadeNodes(evald.self, evald.zeros, evald.nonzeros, TRUE)

\* C15: when the evaluated condition is not zero, not constant, has no
\* root in the zero set and some root outside the nonzero set, and the
\* evaluated P is not the zero polynomial, the result is make over the
\* evaluated condition, the P evaluated with the roots of the evaluated
\* condition added to the nonzero set, and the Q evaluated under the
\* hypothesis as given.
C15_OverEvaluatedCondition ==
    EvaluatedBranch => evald.r \in RemadeNodes(evald.self, evald.zeros, evald.nonzeros, FALSE)

C15_Witness ==
    /\ EvaluatedBranch
    /\ evald.r.k = "SMFN" /\ evald.r.cond # evald.self.cond
    /\ evald.r \notin RemadeNodes(evald.self, evald.zeros, evald.nonzeros, TRUE)

-----------------------------------------------------------------------------
(* Properties of the end state of parse.                                   *)

\* A line of the infix grammar, read from its n-th token: operands and
\* operators alternate, a left parenthesis stands where an operand may, a
\* right parenthesis after an operand and inside a parenthesis, and the
\* line ends after an operand with every parenthesis closed.
RECURSIVE Infix(_, _, _, _)
Infix(line, n, operand, depth) ==
    IF n > Len(line) THEN ~operand /\ depth = 0
    ELSE IF operand
    THEN \/ line[n] = LeftParen /\ Infix(line, n + 1, TRUE, depth + 1)
         \/ line[n] \in OperandTokens /\ Infix(line, n + 1, FALSE, depth)
    ELSE \/ line[n] = RightParen /\ depth > 0 /\ Infix(line, n + 1, FALSE, depth - 1)
         \/ line[n] \in OperatorTokens /\ Infix(line, n + 1, TRUE, depth)

\* C16 as claimed: on every line the final assertion of parse holds, and a
\* line on which parse returns is a line of the infix grammar.
C16_AssertionNeverFails ==
    /\ exc # "AssertionError"
    /\ ParseReturned => Infix(input, 1, TRUE, 0)

-----------------------------------------------------------------------------
(* Properties of the hypotheses of a proof run.                            *)

Disjoint(h) == h[1] \cap h[2] = {}

\* C18: every hypothesis the prover builds has its zero set and its
\* nonzero set disjoint and their union equal to the free variables of
\* diff, and every call of eval made under it, with the roots of a
\* condition added to the nonzero set or one root added to the zero set,
\* has its zero set and its nonzero set disjoint.
C18_HypothesesDisjoint ==
    \A k \in 1..Len(log) :
       /\ Disjoint(<<log[k].zeros, log[k].nonzeros>>)
       /\ log[k].zeros \cup log[k].nonzeros = free_variables(diff)
       /\ \A h \in eval_calls(diff, log[k].zeros, log[k].nonzeros) : Disjoint(h)

C18_Witness ==
    /\ Len(log) = 2
    /\ \E h \in eval_calls(diff, log[2].zeros, log[2].nonzeros) :
          h[2] # log[2].nonzeros /\ h[2] # {}
    /\ \E h \in eval_calls(diff, log[2].zeros, log[2].nonzeros) :
          h[1] # log[2].zeros

=============================================================================
